---- MODULE Spec2Model ----
(***************************************************************************)
(* Vote integrity model of alxpolly: the vote route handler                *)
(* (app/api/polls/[pollId]/vote/route.ts, POST) running against the        *)
(* PostgreSQL schema of the repository (tables polls, poll_options, votes, *)
(* trigger enforce_single_vote, row level security policies).              *)
(*                                                                         *)
(* Every await of the handler is one step.  A vote insert is two steps:    *)
(* the INSERT statement (triggers, policies and constraints evaluated on   *)
(* the committed rows) and its commit, which makes the row visible to the  *)
(* other requests.                                                         *)
(***************************************************************************)
EXTENDS Integers, Sequences, FiniteSets, TLC

\* ------------------------------------------------------------------ bounds
MaxTime == 2
MaxOptionIds == 2
MaxVotes == 2

\* ------------------------------------------------------------- identifiers
NULL == "null"
\* a timestamp column that is null
NoTime == 0 - 1
Users == {"u1", "u2"}
NoUser == "anon"
Callers == Users \cup {NoUser}
Requests == {"r1", "r2"}
PollIds == {"P1", "P2"}
MissingPoll == "P0"
OptionIds == {"o1", "o2", "o3"}
BadId == "not-a-uuid"
VoteTypes == {"single", "multiple", "approval", "ranked", NULL}

\* poll_options rows: poll_id of every option (o3 is an option of P2)
OptionPoll(o) == IF o = "o3" THEN "P2" ELSE "P1"

\* z.string().uuid()
IsUuid(s) == s \in OptionIds

\* sequences over S of length 0..n
RECURSIVE SeqsUpTo(_, _)
SeqsUpTo(S, n) ==
  IF n = 0 THEN {<<>>}
  ELSE LET T == SeqsUpTo(S, n - 1)
       IN  T \cup {Append(t, x) : t \in {u \in T : Len(u) = n - 1}, x \in S}

\* request bodies handed to voteSchema.safeParse
\* optionIds is optional: hasOptionIds tells whether the body carries it
Bodies ==
  {b \in [optionId : OptionIds \cup {BadId}, hasOptionIds : BOOLEAN,
          optionIds : SeqsUpTo(OptionIds, MaxOptionIds)] :
     ~b.hasOptionIds => b.optionIds = <<>>}

\* voteSchema: optionId is a required uuid, optionIds an optional uuid array
voteSchema(body) ==
  /\ IsUuid(body.optionId)
  /\ body.hasOptionIds => \A k \in 1..Len(body.optionIds) : IsUuid(body.optionIds[k])

\* ------------------------------------------------------------------- state
VARIABLES
  polls,     \* table polls: [PollIds -> row]
  votes,     \* table votes, committed rows: [row -> number of copies]
  now,       \* wall clock
  req,       \* the in-flight vote requests: [Requests -> record]
  live,      \* ids of the rows of table polls (polls[p] is a row iff p \in live)
  used,      \* the poll ids gen_random_uuid() has handed out
  options,   \* table poll_options: set of rows
  op,        \* the in-flight poll lifecycle operation (create, delete, activate)
  tally,     \* the votes rows that name the poll whose results are read
  results,   \* what getPollResults last returned
  form,      \* the create-poll form: formData.options
  auth       \* AuthProvider: its state, its effect and the auth client

vars == <<polls, votes, now, req, live, used, options, op, tally, results, form, auth>>

\* what the vote handler never writes
rest == <<live, used, options, op, tally, results, form, auth>>

VoteRows == [poll_id : PollIds, option_id : OptionIds, voter_id : Users]

\* committed rows of poll p cast by voter v
CountVotes(vs, p, v) ==
  LET S == {w \in VoteRows : w.poll_id = p /\ w.voter_id = v}
      RECURSIVE Sum(_)
      Sum(T) == IF T = {} THEN 0
                ELSE LET w == CHOOSE x \in T : TRUE IN vs[w] + Sum(T \ {w})
  IN  Sum(S)

TotalVotes(vs) ==
  LET RECURSIVE Sum(_)
      Sum(T) == IF T = {} THEN 0
                ELSE LET w == CHOOSE x \in T : TRUE IN vs[w] + Sum(T \ {w})
  IN  Sum(VoteRows)

\* polls row as the handler and the policies read it
PollRows ==
  [vote_type : VoteTypes, allow_multiple_votes : BOOLEAN, anonymous : BOOLEAN,
   start_at : {NoTime, 1}, ends_at : {NoTime, 1}, expires_at : {NoTime, 1},
   is_active : BOOLEAN, created_by : Users]

OtherPoll ==
  [vote_type |-> "single", allow_multiple_votes |-> FALSE, anonymous |-> FALSE,
   start_at |-> NoTime, ends_at |-> NoTime, expires_at |-> NoTime,
   is_active |-> TRUE, created_by |-> "u2"]

NoRow == [poll_id |-> "P1", option_id |-> "o1", voter_id |-> "u1"]

\* a request slot: the handler's locals (parsed: safeParse succeeded; body: the
\* fields of parsed.data read so far; poll, now, userId, i), the statement in
\* flight (pending), the answer (resp, dberr, revalidated) and what the request
\* has done so far (nins rows committed; prior: the caller had a vote on arrival)
Idle ==
  [pc |-> "idle", pollId |-> NULL, caller |-> NoUser, parsed |-> FALSE,
   body |-> [optionId |-> BadId, hasOptionIds |-> FALSE, optionIds |-> <<>>],
   poll |-> OtherPoll, now |-> 0, userId |-> "", i |-> 0, pending |-> NoRow,
   dberr |-> NULL, resp |-> NULL, nins |-> 0, prior |-> FALSE,
   revalidated |-> FALSE]

\* a slot that serves no request
Off == [Idle EXCEPT !.pc = "off"]

\* an option text: its characters (label) and their number (len)
Text(k, n) == [label |-> k, len |-> n]

\* the poll_options rows of the options the vote requests name
SeedOptions ==
  {[id |-> o, poll_id |-> OptionPoll(o), text |-> Text(IF o = "o2" THEN 2 ELSE 1, 1)] :
     o \in OptionIds}

\* the body of a create request before any arrived
NoBody ==
  [title |-> 0, description |-> 0 - 1, options |-> <<>>,
   allowMultipleVotes |-> FALSE, expiresAt |-> NoTime]

\* the lifecycle operation slot: kind of operation, its caller, the poll it is
\* about, the body of a create request, the requested is_active value, the
\* answer (resp, dberr, revalidated) and the number of option rows it inserted
IdleOp ==
  [pc |-> "idle", kind |-> NULL, caller |-> NoUser, poll |-> NULL, body |-> NoBody,
   active |-> FALSE, resp |-> NULL, dberr |-> NULL, nopts |-> 0,
   revalidated |-> FALSE]

\* getPollResults has not returned yet
NoResults == [returned |-> FALSE, error |-> NULL, rows |-> <<>>]

\* The votes rows, in the schema of the poll_results view with percentages,
\* that name a poll of n options or one of its options: own[k] rows with the
\* poll's id and its k-th option, foreign[k] rows with its k-th option and the
\* id of another poll, astray rows with the poll's id and an option of another
\* poll (votes.poll_id and votes.option_id are two unrelated foreign keys)
NoVotes(n) ==
  [n |-> n, own |-> [k \in 1..n |-> 0], foreign |-> [k \in 1..n |-> 0], astray |-> 0]

\* useState({ ..., options: ['', ''] }): the texts of the option fields
NoForm == <<"", "">>

\* AuthProvider before its effect ran: the React state (session; user is
\* session?.user), isMounted and the subscription of the effect, the
\* getSession() call (call: "none", "pending", "read", "applied", "dropped";
\* read: the session it resolved with), the session the auth client holds
\* (current) and the one of the last event delivered to the listener (event)
NoAuth ==
  [session |-> 0, mounted |-> FALSE, subscribed |-> FALSE, call |-> "none",
   read |-> 0, current |-> 0, event |-> 0 - 1, events |-> 0]

\* one request at a time, on a poll P1 of any configuration
Init ==
  /\ \E p \in PollRows :
       /\ p.created_by = "u1"
       /\ p.is_active
       /\ polls = [x \in PollIds |-> IF x = "P1" THEN p ELSE OtherPoll]
  /\ votes = [w \in VoteRows |-> 0]
  /\ now = 0
  /\ req = [r \in Requests |-> IF r = "r1" THEN Idle ELSE Off]
  /\ live = PollIds
  /\ used = PollIds
  /\ options = SeedOptions
  /\ op = IdleOp
  /\ tally = NoVotes(0)
  /\ results = NoResults
  /\ form = NoForm
  /\ auth = NoAuth

\* ------------------------------------------------------------ the database
\* number of poll_options rows of poll p
OptionCount(p) == Cardinality({o \in options : o.poll_id = p})

\* trigger enforce_single_vote (before insert on votes); TRUE = raises P0001
enforce_single_vote(pl, vs, poll_id, voter_id) ==
  /\ pl[poll_id].allow_multiple_votes = FALSE
  /\ CountVotes(vs, poll_id, voter_id) > 0

\* mutant: the policy does not look at is_active
votes_insert_Mut(pl, t, uid, poll_id, voter_id) ==
  /\ uid \in Users
  /\ uid = voter_id
  /\ (pl[poll_id].expires_at = NoTime \/ t < pl[poll_id].expires_at)

\* policy votes_insert, with check (...)
votes_insert(pl, t, uid, poll_id, voter_id) ==
  /\ uid \in Users
  /\ uid = voter_id
  /\ pl[poll_id].is_active = TRUE
  /\ (pl[poll_id].expires_at = NoTime \/ t < pl[poll_id].expires_at)

\* mutant: only the foreign key on option_id is checked
option_belongs_to_poll_Mut(poll_id, option_id) == option_id \in OptionIds

\* constraint option_belongs_to_poll
option_belongs_to_poll(poll_id, option_id) == OptionPoll(option_id) = poll_id

\* INSERT INTO votes (poll_id, option_id, voter_id) issued with the session of
\* uid: the error the statement ends with, NULL when the row is accepted
InsertError(pl, vs, t, uid, poll_id, option_id, voter_id) ==
  IF voter_id = NULL THEN "23502"
  ELSE IF voter_id \notin Users THEN "22P02"
  ELSE IF enforce_single_vote(pl, vs, poll_id, voter_id) THEN "P0001"
  ELSE IF ~votes_insert(pl, t, uid, poll_id, voter_id) THEN "42501"
  ELSE IF ~option_belongs_to_poll(poll_id, option_id) THEN "23514"
  ELSE NULL

\* ------------------------------------------------------------- the handler
\* mutant: revalidatePath is called before every return
Respond_Mut(q, code) == [q EXCEPT !.pc = "done", !.resp = code, !.revalidated = TRUE]

\* return NextResponse.json(...) with an error code
Respond(q, code) == [q EXCEPT !.pc = "done", !.resp = code]

\* the option ids the handler inserts, in order
Targets(q) ==
  IF q.poll.vote_type = "single" THEN <<q.body.optionId>> ELSE q.body.optionIds

\* The fields of parsed.data that the branch for vote type vt reads; the fields
\* it never reads keep the value they have in an idle slot
ReadFields(b, vt) ==
  IF vt = "single" THEN [Idle.body EXCEPT !.optionId = b.optionId]
  ELSE IF vt \in {"multiple", "approval"}
    THEN [Idle.body EXCEPT !.hasOptionIds = b.hasOptionIds, !.optionIds = b.optionIds]
  ELSE Idle.body

\* The bodies that pass voteSchema, as far as the branch for vt reads them.
\* Start fixes only whether the body passes voteSchema; its option ids are
\* drawn where the handler first reads them.
ParsedData(vt) == {ReadFields(b, vt) : b \in {x \in Bodies : voteSchema(x)}}

\* mutant: the ranked branch is missing, insertResult stays undefined
HandleVoteType_Mut(q, b) ==
  IF q.poll.vote_type = "single"
    THEN [q EXCEPT !.pc = "insert", !.i = 1, !.body = b]
  ELSE IF q.poll.vote_type \in {"multiple", "approval"} THEN
    LET m == [q EXCEPT !.body = b] IN
    IF ~b.hasOptionIds THEN Respond(m, "VALIDATION_ERROR")
    ELSE IF Len(b.optionIds) = 0 THEN Respond(m, "INTERNAL_ERROR")
      ELSE [m EXCEPT !.pc = "insert", !.i = 1]
  ELSE Respond(q, "INTERNAL_ERROR")

\* mutant: the result check reads insertResult?.ok, an empty optionIds array
\* falls through to the ok answer
HandleVoteType_Empty(q, b) ==
  IF q.poll.vote_type = "single"
    THEN [q EXCEPT !.pc = "insert", !.i = 1, !.body = b]
  ELSE IF q.poll.vote_type \in {"multiple", "approval"} THEN
    LET m == [q EXCEPT !.body = b] IN
    IF ~b.hasOptionIds THEN Respond(m, "VALIDATION_ERROR")
    ELSE IF Len(b.optionIds) = 0
      THEN [Respond(m, "OK") EXCEPT !.revalidated = TRUE]
      ELSE [m EXCEPT !.pc = "insert", !.i = 1]
  ELSE IF q.poll.vote_type = "ranked" THEN Respond(q, "NOT_IMPLEMENTED")
  ELSE Respond(q, "INTERNAL_ERROR")

\* "Handle vote type", up to the first insertVote call; b is parsed.data
HandleVoteType(q, b) ==
  IF q.poll.vote_type = "single"
    THEN [q EXCEPT !.pc = "insert", !.i = 1, !.body = b]
  ELSE IF q.poll.vote_type \in {"multiple", "approval"} THEN
    LET m == [q EXCEPT !.body = b] IN
    IF ~b.hasOptionIds THEN Respond(m, "VALIDATION_ERROR")
    ELSE IF Len(b.optionIds) = 0
      \* insertResult is undefined: 'ok' in insertResult throws, caught by catch
      THEN Respond(m, "INTERNAL_ERROR")
      ELSE [m EXCEPT !.pc = "insert", !.i = 1]
  ELSE IF q.poll.vote_type = "ranked" THEN Respond(q, "NOT_IMPLEMENTED")
  ELSE Respond(q, "INTERNAL_ERROR")

\* a request arrives: params, request.json(), voteSchema.safeParse
Start(r) ==
  /\ req[r].pc = "idle"
  /\ \E c \in Callers, p \in {"P1", MissingPoll}, ok \in {voteSchema(b) : b \in Bodies} :
       LET q == [Idle EXCEPT !.caller = c, !.pollId = p,
                   !.prior = (c \in Users /\ p \in PollIds /\ CountVotes(votes, p, c) > 0)]
       IN  req' = [req EXCEPT ![r] =
                     IF ok THEN [q EXCEPT !.pc = "fetch", !.parsed = TRUE]
                     ELSE Respond(q, "VALIDATION_ERROR")]
  /\ UNCHANGED <<polls, votes, now>>
  /\ UNCHANGED rest

\* poll.start_at && new Date(poll.start_at) > now
NotStarted(poll, t) == poll.start_at # NoTime /\ poll.start_at > t

\* poll.ends_at && new Date(poll.ends_at) < now
Ended(poll, t) == poll.ends_at # NoTime /\ poll.ends_at < t

\* select * from polls where id = pollId, then the scheduling checks
FetchPoll(r) ==
  /\ req[r].pc = "fetch"
  /\ LET q == req[r] IN
     IF q.pollId \notin PollIds
       THEN req' = [req EXCEPT ![r] = Respond(q, "NOT_FOUND")]
       ELSE LET poll == polls[q.pollId]
                f == [q EXCEPT !.poll = poll, !.now = now]
            IN  \E b \in ParsedData(poll.vote_type) :
                  req' = [req EXCEPT ![r] =
                    IF NotStarted(poll, now) THEN Respond(f, "NOT_STARTED")
                    ELSE IF Ended(poll, now) THEN Respond(f, "ENDED")
                    ELSE IF ~poll.anonymous THEN [f EXCEPT !.pc = "auth"]
                    ELSE HandleVoteType(f, b)]
  /\ UNCHANGED <<polls, votes, now>>
  /\ UNCHANGED rest

\* mutant: a missing user is not rejected, userId stays ''
requireUser_Mut(r) ==
  /\ req[r].pc = "auth"
  /\ LET q == req[r] IN
     req' = [req EXCEPT ![r] =
       [q EXCEPT !.userId = IF q.caller \in Users THEN q.caller ELSE "",
                 !.pc = "precheck"]]
  /\ UNCHANGED <<polls, votes, now>>
  /\ UNCHANGED rest

\* requireUser() and the UNAUTHORIZED answer
requireUser(r) ==
  /\ req[r].pc = "auth"
  /\ LET q == req[r] IN
     req' = [req EXCEPT ![r] =
       IF q.caller \notin Users THEN Respond(q, "UNAUTHORIZED")
       ELSE [q EXCEPT !.userId = q.caller, !.pc = "precheck"]]
  /\ UNCHANGED <<polls, votes, now>>
  /\ UNCHANGED rest

\* mutant: the pre-check filters on the wrong poll and finds nothing
ExistingVotes_Mut(vs, pollId, userId) == CountVotes(vs, "P2", userId) > 0

\* select id from votes where poll_id = pollId and voter_id = userId limit 1
ExistingVotes(vs, pollId, userId) == CountVotes(vs, pollId, userId) > 0

PreCheck(r) ==
  /\ req[r].pc = "precheck"
  /\ \E b \in ParsedData(req[r].poll.vote_type) : LET q == req[r] IN
     req' = [req EXCEPT ![r] =
       IF ExistingVotes(votes, q.pollId, q.userId) THEN Respond(q, "ALREADY_VOTED")
       ELSE HandleVoteType(q, b)]
  /\ UNCHANGED <<polls, votes, now>>
  /\ UNCHANGED rest

\* insertVote: the INSERT statement runs; a rejected statement ends the request
InsertStmt(r) ==
  /\ req[r].pc = "insert"
  /\ TotalVotes(votes) + Cardinality({x \in Requests : req[x].pc = "commit"}) < MaxVotes
  /\ LET q == req[r]
         oid == Targets(q)[q.i]
         e == InsertError(polls, votes, now, q.caller, q.pollId, oid, q.userId)
     IN  req' = [req EXCEPT ![r] =
           IF e # NULL THEN [Respond(q, "DB_INSERT_VOTE") EXCEPT !.dberr = e]
           ELSE [q EXCEPT !.pc = "commit",
                   !.pending = [poll_id |-> q.pollId, option_id |-> oid,
                                voter_id |-> q.userId]]]
  /\ UNCHANGED <<polls, votes, now>>
  /\ UNCHANGED rest

\* the statement commits; the handler goes on to the next option or answers
InsertCommit(r) ==
  /\ req[r].pc = "commit"
  /\ LET q == req[r] IN
     /\ votes' = [votes EXCEPT ![q.pending] = @ + 1]
     /\ req' = [req EXCEPT ![r] =
          LET c == [q EXCEPT !.pending = NoRow, !.nins = @ + 1] IN
          IF q.i < Len(Targets(q)) THEN [c EXCEPT !.pc = "insert", !.i = @ + 1]
          ELSE [Respond(c, "OK") EXCEPT !.revalidated = TRUE]]
  /\ UNCHANGED <<polls, now>>
  /\ UNCHANGED rest

\* the response is delivered; the slot serves the next request
Finish(r) ==
  /\ req[r].pc = "done"
  /\ req' = [req EXCEPT ![r] = Idle]
  /\ UNCHANGED <<polls, votes, now>>
  /\ UNCHANGED rest

\* --------------------------------------------------------- the environment
Tick ==
  /\ now < MaxTime
  /\ now' = now + 1
  /\ UNCHANGED <<polls, votes, req>>
  /\ UNCHANGED rest

\* mutant: the count is not restricted to the options of the poll
enforce_min_options_Mut(p, active) == active => Cardinality(options) >= 2

\* trigger enforce_min_options (before update of is_active on polls)
enforce_min_options(p, active) == active => OptionCount(p) >= 2

\* update polls set is_active = active where id = P1, issued by user u
SetActive(u, active) ==
  /\ polls["P1"].created_by = u
  /\ enforce_min_options("P1", active)
  /\ polls["P1"].is_active # active
  /\ polls' = [polls EXCEPT !["P1"].is_active = active]
  /\ UNCHANGED <<votes, now, req>>
  /\ UNCHANGED rest

Next ==
  \/ \E r \in Requests : Start(r)
  \/ \E r \in Requests : FetchPoll(r)
  \/ \E r \in Requests : requireUser(r)
  \/ \E r \in Requests : PreCheck(r)
  \/ \E r \in Requests : InsertStmt(r)
  \/ \E r \in Requests : InsertCommit(r)
  \/ \E r \in Requests : Finish(r)
  \/ Tick
  \/ \E u \in Users, a \in BOOLEAN : SetActive(u, a)

Spec == Init /\ [][Next]_vars

\* ===================================== the handler without try and catch
\* app/api/polls/[pollId]/vote/route.ts, POST: the same steps as above except
\* that no statement is inside a try block, there is no prior-vote check, and
\* userId is null on an anonymous poll
\* the request ended with an exception that left POST: no result was returned
Uncaught == "uncaught exception"

\* "Handle vote type", up to the first insertVote call; b is parsed.data
route_HandleVoteType(q, b) ==
  IF q.poll.vote_type = "single"
    THEN [q EXCEPT !.pc = "insert", !.i = 1, !.body = b]
  ELSE IF q.poll.vote_type \in {"multiple", "approval"} THEN
    LET m == [q EXCEPT !.body = b] IN
    IF ~b.hasOptionIds THEN Respond(m, "VALIDATION_ERROR")
    ELSE IF Len(b.optionIds) = 0
      \* insertResult is undefined: 'ok' in insertResult throws
      THEN Respond(m, Uncaught)
      ELSE [m EXCEPT !.pc = "insert", !.i = 1]
  ELSE IF q.poll.vote_type = "ranked" THEN Respond(q, "NOT_IMPLEMENTED")
  ELSE Respond(q, Uncaught)

\* a request arrives: request.json() (throws on a body that is not JSON),
\* voteSchema.safeParse
route_Start(r) ==
  /\ req[r].pc = "idle"
  /\ \E c \in Callers, p \in {"P1", MissingPoll}, json \in BOOLEAN,
        ok \in {voteSchema(b) : b \in Bodies} :
       LET q == [Idle EXCEPT !.caller = c, !.pollId = p,
                   !.prior = (c \in Users /\ p \in PollIds /\ CountVotes(votes, p, c) > 0)]
       IN  req' = [req EXCEPT ![r] =
                     IF ~json THEN Respond(q, Uncaught)
                     ELSE IF ok THEN [q EXCEPT !.pc = "fetch", !.parsed = TRUE]
                     ELSE Respond(q, "VALIDATION_ERROR")]
  /\ UNCHANGED <<polls, votes, now>>
  /\ UNCHANGED rest

\* select * from polls where id = params.pollId, then the scheduling checks;
\* on an anonymous poll userId = null
route_FetchPoll(r) ==
  /\ req[r].pc = "fetch"
  /\ LET q == req[r] IN
     IF q.pollId \notin PollIds
       THEN req' = [req EXCEPT ![r] = Respond(q, "NOT_FOUND")]
       ELSE LET poll == polls[q.pollId]
                f == [q EXCEPT !.poll = poll, !.now = now]
            IN  \E b \in ParsedData(poll.vote_type) :
                  req' = [req EXCEPT ![r] =
                    IF NotStarted(poll, now) THEN Respond(f, "NOT_STARTED")
                    ELSE IF Ended(poll, now) THEN Respond(f, "ENDED")
                    ELSE IF ~poll.anonymous THEN [f EXCEPT !.pc = "auth"]
                    ELSE route_HandleVoteType([f EXCEPT !.userId = NULL], b)]
  /\ UNCHANGED <<polls, votes, now>>
  /\ UNCHANGED rest

\* requireUser() and the UNAUTHORIZED answer, then "Handle vote type"
route_requireUser(r) ==
  /\ req[r].pc = "auth"
  /\ \E b \in ParsedData(req[r].poll.vote_type) : LET q == req[r] IN
     req' = [req EXCEPT ![r] =
       IF q.caller \notin Users THEN Respond(q, "UNAUTHORIZED")
       ELSE route_HandleVoteType([q EXCEPT !.userId = q.caller], b)]
  /\ UNCHANGED <<polls, votes, now>>
  /\ UNCHANGED rest

NextRoute ==
  \/ \E r \in Requests : route_Start(r)
  \/ \E r \in Requests : route_FetchPoll(r)
  \/ \E r \in Requests : route_requireUser(r)
  \/ \E r \in Requests : InsertStmt(r)
  \/ \E r \in Requests : InsertCommit(r)
  \/ \E r \in Requests : Finish(r)
  \/ Tick
  \/ \E u \in Users, a \in BOOLEAN : SetActive(u, a)

SpecRoute == Init /\ [][NextRoute]_vars

\* ============================================================ poll lifecycle
\* ------------------------------------------------- createPoll: the payload
MinTitle == 3
MaxTitle == 200
MaxDescription == 2000
MaxText == 200
MinOptions == 2
MaxOptions == 10

\* title lengths, description lengths (0 - 1: no description) and expiresAt
\* values (NoTime: absent or null, BadTime: a string that is no ISO datetime)
TitleLens == {MinTitle - 1, MinTitle, MaxTitle, MaxTitle + 1}
DescriptionLens == {0 - 1, MaxDescription + 1}
BadTime == 0 - 2
OptionKinds == {"distinct", "duplicate", "empty", "long"}

\* an options array of n entries: all texts differ, or the second repeats the
\* first, or the first is empty, or the first is too long
OptionArray(n, kind) ==
  [k \in 1..n |->
     IF k = 1
       THEN Text(1, IF kind = "empty" THEN 0
                    ELSE IF kind = "long" THEN MaxText + 1 ELSE 1)
     ELSE IF k = 2 /\ kind = "duplicate" THEN Text(1, 1)
     ELSE Text(k, MaxText)]

\* the bodies handed to createPollSchema.safeParse (title, description: lengths)
CreateBodies ==
  [title : TitleLens, description : DescriptionLens,
   options : {OptionArray(n, kind) : n \in 0..(MaxOptions + 1), kind \in OptionKinds},
   allowMultipleVotes : BOOLEAN, expiresAt : {NoTime, 1, BadTime}]

\* z.object({ text: z.string().min(1).max(200) })
optionSchema(o) == o.len >= 1 /\ o.len <= MaxText

\* mutant: options: z.array(optionSchema).min(1).max(10)
createPollSchema_Mut(b) ==
  /\ b.title >= MinTitle /\ b.title <= MaxTitle
  /\ b.description <= MaxDescription
  /\ Len(b.options) >= MinOptions - 1 /\ Len(b.options) <= MaxOptions
  /\ \A k \in 1..Len(b.options) : optionSchema(b.options[k])
  /\ b.expiresAt # BadTime

\* createPollSchema
createPollSchema(b) ==
  /\ b.title >= MinTitle /\ b.title <= MaxTitle
  /\ b.description <= MaxDescription
  /\ Len(b.options) >= MinOptions /\ Len(b.options) <= MaxOptions
  /\ \A k \in 1..Len(b.options) : optionSchema(b.options[k])
  /\ b.expiresAt # BadTime

\* ------------------------------------------------ createPoll: the database
\* gen_random_uuid() for the k-th option row of poll p
NewOptionId(p, k) == p \o "-" \o ToString(k)

\* policy polls_insert and the check on title
PollInsertError(uid, created_by, title) ==
  IF uid # created_by THEN "42501"
  ELSE IF title < MinTitle \/ title > MaxTitle THEN "23514"
  ELSE NULL

\* mutant: the table has no unique (poll_id, text)
OptionsInsertError_Mut(pl, lv, opts, uid, p, texts) ==
  IF p \notin lv THEN "23503"
  ELSE IF pl[p].created_by # uid THEN "42501"
  ELSE IF \E k \in 1..Len(texts) : texts[k].len < 1 \/ texts[k].len > MaxText THEN "23514"
  ELSE NULL

\* INSERT INTO poll_options of the rows of texts for poll p, one statement:
\* foreign key, policy poll_options_insert, check on text, unique (poll_id, text)
OptionsInsertError(pl, lv, opts, uid, p, texts) ==
  IF p \notin lv THEN "23503"
  ELSE IF pl[p].created_by # uid THEN "42501"
  ELSE IF \E k \in 1..Len(texts) : texts[k].len < 1 \/ texts[k].len > MaxText THEN "23514"
  ELSE IF \/ \E j, k \in 1..Len(texts) : j # k /\ texts[j] = texts[k]
          \/ \E k \in 1..Len(texts), o \in opts : o.poll_id = p /\ o.text = texts[k]
    THEN "23505"
  ELSE NULL

\* -------------------------------------------------- createPoll: the handler
\* mutant: the payload is validated after the polls row was inserted
CreatePOST_Mut ==
  /\ op.pc = "idle"
  /\ PollIds \ used # {}
  /\ \E c \in Callers, b \in CreateBodies, p \in PollIds \ used :
       LET o == [IdleOp EXCEPT !.kind = "create", !.caller = c, !.body = b] IN
       IF c \notin Users
         THEN /\ op' = [o EXCEPT !.pc = "done", !.resp = "UNAUTHORIZED"]
              /\ UNCHANGED <<polls, live, used>>
       ELSE IF createPollSchema(b)
         THEN /\ op' = [o EXCEPT !.pc = "insertPoll"]
              /\ UNCHANGED <<polls, live, used>>
       ELSE /\ polls' = [polls EXCEPT ![p] = [OtherPoll EXCEPT !.created_by = c]]
            /\ live' = live \cup {p}
            /\ used' = used \cup {p}
            /\ op' = [o EXCEPT !.pc = "done", !.resp = "VALIDATION_ERROR", !.poll = p]
  /\ UNCHANGED <<votes, now, req, options, tally, results, form, auth>>

\* POST: request.json(), createPollSchema.safeParse, requireUser
CreatePOST ==
  /\ op.pc = "idle"
  /\ PollIds \ used # {}
  /\ \E c \in Callers, b \in CreateBodies :
       LET o == [IdleOp EXCEPT !.kind = "create", !.caller = c, !.body = b] IN
       op' = IF ~createPollSchema(b)
               THEN [o EXCEPT !.pc = "done", !.resp = "VALIDATION_ERROR"]
             ELSE IF c \notin Users
               THEN [o EXCEPT !.pc = "done", !.resp = "UNAUTHORIZED"]
             ELSE [o EXCEPT !.pc = "insertPoll"]
  /\ UNCHANGED <<polls, votes, now, req, live, used, options, tally, results, form, auth>>

\* insertPoll, first statement: insert into polls ... select('*').single();
\* the columns the statement does not name take their defaults (is_active true)
insertPoll_poll ==
  /\ op.pc = "insertPoll"
  /\ \E p \in PollIds \ used :
       LET e == PollInsertError(op.caller, op.caller, op.body.title) IN
       IF e # NULL
         THEN /\ op' = [op EXCEPT !.pc = "done", !.resp = "DB_INSERT_POLL", !.dberr = e]
              /\ UNCHANGED <<polls, live, used>>
         ELSE /\ polls' = [polls EXCEPT ![p] =
                   [vote_type |-> NULL,
                    allow_multiple_votes |-> op.body.allowMultipleVotes,
                    anonymous |-> FALSE, start_at |-> NoTime, ends_at |-> NoTime,
                    expires_at |-> op.body.expiresAt, is_active |-> TRUE,
                    created_by |-> op.caller]]
              /\ live' = live \cup {p}
              /\ used' = used \cup {p}
              /\ op' = [op EXCEPT !.pc = "insertOptions", !.poll = p]
  /\ UNCHANGED <<votes, now, req, options, tally, results, form, auth>>

\* mutant: the option rows are inserted one statement each, up to the first
\* one the store rejects
insertPoll_options_Mut ==
  /\ op.pc = "insertOptions"
  /\ LET texts == op.body.options
         e == OptionsInsertError(polls, live, options, op.caller, op.poll, texts)
         bad == {k \in 1..Len(texts) :
                   OptionsInsertError(polls, live, options, op.caller, op.poll,
                                      SubSeq(texts, 1, k)) # NULL}
         n == IF bad = {} THEN Len(texts)
              ELSE (CHOOSE k \in bad : \A j \in bad : k <= j) - 1
     IN  /\ options' = options \cup
               {[id |-> NewOptionId(op.poll, k), poll_id |-> op.poll,
                 text |-> texts[k]] : k \in 1..n}
         /\ op' = IF e # NULL
                    THEN [op EXCEPT !.pc = "done", !.resp = "DB_INSERT_OPTIONS",
                                    !.dberr = e, !.nopts = n]
                    ELSE [op EXCEPT !.pc = "done", !.resp = "OK",
                                    !.nopts = Len(texts), !.revalidated = TRUE]
  /\ UNCHANGED <<polls, votes, now, req, live, used, tally, results, form, auth>>

\* mutant: a failed options insert is compensated by deleting the poll row
insertPoll_options_Undo ==
  /\ op.pc = "insertOptions"
  /\ LET texts == op.body.options
         e == OptionsInsertError(polls, live, options, op.caller, op.poll, texts)
     IN  IF e # NULL
           THEN /\ op' = [op EXCEPT !.pc = "done", !.resp = "DB_INSERT_OPTIONS",
                                    !.dberr = e]
                /\ live' = live \ {op.poll}
                /\ polls' = [polls EXCEPT ![op.poll] = OtherPoll]
                /\ UNCHANGED options
           ELSE /\ options' = options \cup
                     {[id |-> NewOptionId(op.poll, k), poll_id |-> op.poll,
                       text |-> texts[k]] : k \in 1..Len(texts)}
                /\ op' = [op EXCEPT !.pc = "done", !.resp = "OK",
                                    !.nopts = Len(texts), !.revalidated = TRUE]
                /\ UNCHANGED <<polls, live>>
  /\ UNCHANGED <<votes, now, req, used, tally, results, form, auth>>

\* insertPoll, second statement: insert into poll_options, then the answer
insertPoll_options ==
  /\ op.pc = "insertOptions"
  /\ LET texts == op.body.options
         e == OptionsInsertError(polls, live, options, op.caller, op.poll, texts)
     IN  IF e # NULL
           THEN /\ op' = [op EXCEPT !.pc = "done", !.resp = "DB_INSERT_OPTIONS",
                                    !.dberr = e]
                /\ UNCHANGED options
           ELSE /\ options' = options \cup
                     {[id |-> NewOptionId(op.poll, k), poll_id |-> op.poll,
                       text |-> texts[k]] : k \in 1..Len(texts)}
                /\ op' = [op EXCEPT !.pc = "done", !.resp = "OK",
                                    !.nopts = Len(texts), !.revalidated = TRUE]
  /\ UNCHANGED <<polls, votes, now, req, live, used, tally, results, form, auth>>

\* ------------------------------------------------- activation (the database)
\* policy polls_owner_modify, using and with check
polls_owner_modify(uid, row) == uid = row.created_by

\* update polls set is_active = active where id = p, with the session of uid:
\* the policy selects the row, then trigger trg_polls_min_options runs
UpdateIsActive(uid, p, active) ==
  /\ op.pc = "idle"
  /\ LET o == [IdleOp EXCEPT !.kind = "setActive", !.caller = uid, !.poll = p,
                             !.active = active, !.pc = "done"]
     IN  IF p \notin live \/ ~polls_owner_modify(uid, polls[p])
           THEN op' = [o EXCEPT !.resp = "NO_ROWS"] /\ UNCHANGED polls
         ELSE IF ~enforce_min_options(p, active)
           THEN op' = [o EXCEPT !.resp = "ERROR", !.dberr = "P0001"] /\ UNCHANGED polls
         ELSE /\ polls' = [polls EXCEPT ![p].is_active = active]
              /\ op' = [o EXCEPT !.resp = "OK"]
  /\ UNCHANGED <<votes, now, req, live, used, options, tally, results, form, auth>>

\* ------------------------------------------------ deletePoll (the dashboard)
\* mutant: every signed-in user may delete any vote
votes_delete_own_Mut(uid, voter_id) == uid \in Users

\* policy votes_delete_own
votes_delete_own(uid, voter_id) == uid = voter_id

\* policy poll_options_delete
poll_options_delete(pl, lv, uid, poll_id) ==
  poll_id \in lv /\ pl[poll_id].created_by = uid

\* policy polls_owner_delete
polls_owner_delete(uid, row) == uid = row.created_by

\* confirm(), then delete from votes where poll_id = p: the rows the policy
\* lets the caller see
deletePoll_votes(uid, p) ==
  /\ op.pc = "idle"
  /\ op' = [IdleOp EXCEPT !.kind = "delete", !.caller = uid, !.poll = p,
                          !.pc = "deleteOptions"]
  /\ votes' = [w \in VoteRows |->
                 IF w.poll_id = p /\ votes_delete_own(uid, w.voter_id) THEN 0
                 ELSE votes[w]]
  /\ UNCHANGED <<polls, now, req, live, used, options, tally, results, form, auth>>

\* delete from poll_options where poll_id = p; votes.option_id references
\* poll_options on delete cascade
deletePoll_options ==
  /\ op.pc = "deleteOptions"
  /\ LET gone == {o \in options : o.poll_id = op.poll
                      /\ poll_options_delete(polls, live, op.caller, o.poll_id)}
         ids == {o.id : o \in gone}
     IN  /\ options' = options \ gone
         /\ votes' = [w \in VoteRows |-> IF w.option_id \in ids THEN 0 ELSE votes[w]]
  /\ op' = [op EXCEPT !.pc = "deletePoll"]
  /\ UNCHANGED <<polls, now, req, live, used, tally, results, form, auth>>

\* delete from polls where id = p (poll_options and votes reference polls on
\* delete cascade), then setMyPolls: no statement's error is looked at
deletePoll_poll ==
  /\ op.pc = "deletePoll"
  /\ IF op.poll \in live /\ polls_owner_delete(op.caller, polls[op.poll])
       THEN /\ live' = live \ {op.poll}
            /\ polls' = [polls EXCEPT ![op.poll] = OtherPoll]
            /\ options' = {o \in options : o.poll_id # op.poll}
            /\ votes' = [w \in VoteRows |-> IF w.poll_id = op.poll THEN 0 ELSE votes[w]]
       ELSE UNCHANGED <<live, polls, options, votes>>
  /\ op' = [op EXCEPT !.pc = "done", !.resp = "REMOVED"]
  /\ UNCHANGED <<now, req, used, tally, results, form, auth>>

\* the operation has returned
FinishOp ==
  /\ op.pc = "done"
  /\ op' = IdleOp
  /\ UNCHANGED <<polls, votes, now, req, live, used, options, tally, results, form, auth>>

\* poll P1 of u1 with its two options, any votes of u1 and u2 on it (at most
\* one each); no vote request in flight
InitLife ==
  /\ polls = [x \in PollIds |->
                IF x = "P1" THEN [OtherPoll EXCEPT !.created_by = "u1"] ELSE OtherPoll]
  /\ live = {"P1"}
  /\ used = {"P1"}
  /\ options = {o \in SeedOptions : o.poll_id = "P1"}
  /\ \E f \in [Users -> {NULL} \cup {o.id : o \in {x \in SeedOptions : x.poll_id = "P1"}}] :
       votes = [w \in VoteRows |->
                  IF w.poll_id = "P1" /\ f[w.voter_id] = w.option_id THEN 1 ELSE 0]
  /\ now = 0
  /\ req = [r \in Requests |-> Off]
  /\ op = IdleOp
  /\ tally = NoVotes(0)
  /\ results = NoResults
  /\ form = NoForm
  /\ auth = NoAuth

NextLife ==
  \/ CreatePOST
  \/ insertPoll_poll
  \/ insertPoll_options
  \/ \E u \in Callers, p \in PollIds, a \in BOOLEAN : UpdateIsActive(u, p, a)
  \/ \E u \in Callers, p \in PollIds : deletePoll_votes(u, p)
  \/ deletePoll_options
  \/ deletePoll_poll
  \/ FinishOp

SpecLife == InitLife /\ [][NextLife]_vars

\* ------------------------------------ vote requests and create requests
\* poll P1 of u1 with its two options, of any vote type, without time bounds;
\* no other poll yet
InitBoth ==
  /\ \E p \in PollRows :
       /\ p.created_by = "u1" /\ p.is_active
       /\ p.start_at = NoTime /\ p.ends_at = NoTime /\ p.expires_at = NoTime
       /\ polls = [x \in PollIds |-> IF x = "P1" THEN p ELSE OtherPoll]
  /\ votes = [w \in VoteRows |-> 0]
  /\ now = 0
  /\ req = [r \in Requests |-> IF r = "r1" THEN Idle ELSE Off]
  /\ live = {"P1"}
  /\ used = {"P1"}
  /\ options = {o \in SeedOptions : o.poll_id = "P1"}
  /\ op = IdleOp
  /\ tally = NoVotes(0)
  /\ results = NoResults
  /\ form = NoForm
  /\ auth = NoAuth

\* a vote request and a create request; each arrives when the other is not
\* being served
NextBoth ==
  \/ \E r \in Requests : op.pc = "idle" /\ Start(r)
  \/ \E r \in Requests : FetchPoll(r)
  \/ \E r \in Requests : requireUser(r)
  \/ \E r \in Requests : PreCheck(r)
  \/ \E r \in Requests : InsertStmt(r)
  \/ \E r \in Requests : InsertCommit(r)
  \/ \E r \in Requests : Finish(r)
  \/ (\A r \in Requests : req[r].pc \in {"idle", "off"}) /\ CreatePOST
  \/ insertPoll_poll
  \/ insertPoll_options
  \/ FinishOp

SpecBoth == InitBoth /\ [][NextBoth]_vars

\* ================================================================== results
\* ----------------------------------------------------------------- bounds
MaxResultOptions == 6
MaxBallots == 6
MaxStray == 1

RECURSIVE SumSeq(_)
SumSeq(q) == IF q = <<>> THEN 0 ELSE Head(q) + SumSeq(Tail(q))

\* number of votes rows in t
Ballots(t) == SumSeq(t.own) + SumSeq(t.foreign) + t.astray

\* number of votes rows in t whose option is not an option of their poll
Stray(t) == SumSeq(t.foreign) + t.astray

\* total.total_votes IS NULL: the poll has no row in the subquery
NoTotal == 0 - 1
\* the query ends with division_by_zero
DivisionByZero == 0 - 1

\* SELECT poll_id, COUNT(*) AS total_votes FROM votes GROUP BY poll_id,
\* left-joined on po.poll_id
total_votes(t) ==
  IF SumSeq(t.own) + t.astray = 0 THEN NoTotal ELSE SumSeq(t.own) + t.astray

\* ROUND((count::DECIMAL / total::DECIMAL) * 100, 1), in tenths of a percent
\* (numeric rounds half away from zero)
Round1(count, total) == (2000 * count + total) \div (2 * total)

\* mutant: the CASE guard is replaced by COALESCE(total.total_votes, 0)
percentage_Mut(count, total) ==
  IF total = NoTotal THEN DivisionByZero ELSE Round1(count, total)

\* CASE WHEN total.total_votes > 0 THEN ROUND(...) ELSE 0 END AS percentage
percentage(count, total) ==
  IF total # NoTotal /\ total > 0 THEN Round1(count, total) ELSE 0

\* view poll_results restricted to the poll: one row per poll_options row,
\* COUNT(v.id) over the votes joined on option_id
poll_results(t) ==
  [k \in 1..t.n |->
     [position |-> k, votes |-> t.own[k] + t.foreign[k],
      percentage |-> percentage(t.own[k] + t.foreign[k], total_votes(t))]]

\* .order('votes', { ascending: false }); equal counts stay in view order
RECURSIVE OrderByVotes(_)
OrderByVotes(rows) ==
  IF rows = <<>> THEN <<>>
  ELSE LET i == CHOOSE x \in 1..Len(rows) :
                  \A j \in 1..Len(rows) :
                    \/ rows[j].votes < rows[x].votes
                    \/ (rows[j].votes = rows[x].votes /\ x <= j)
       IN  <<rows[i]>> \o
           OrderByVotes(SubSeq(rows, 1, i - 1) \o SubSeq(rows, i + 1, Len(rows)))

\* usePolls.vote: insert into votes (poll_id, option_id, user_id) of one row;
\* here: the row names the poll read; k: the row names its k-th option (0: an
\* option of another poll)
vote(here, k) ==
  /\ ~results.returned
  /\ Ballots(tally) < MaxBallots
  /\ k \in 0..tally.n
  /\ here \/ k > 0
  /\ (here /\ k > 0) \/ Stray(tally) < MaxStray
  /\ tally' = IF k = 0 THEN [tally EXCEPT !.astray = @ + 1]
              ELSE IF here THEN [tally EXCEPT !.own[k] = @ + 1]
              ELSE [tally EXCEPT !.foreign[k] = @ + 1]
  /\ UNCHANGED <<polls, votes, now, req, live, used, options, op, results, form, auth>>

\* usePolls.getPollResults: select * from poll_results where poll_id = pollId,
\* ordered by votes; an error of the query is caught and [] returned
getPollResults ==
  /\ ~results.returned
  /\ tally.n > 0
  /\ LET rows == poll_results(tally) IN
     results' =
       IF \E k \in 1..Len(rows) : rows[k].percentage = DivisionByZero
         THEN [returned |-> TRUE, error |-> "22012", rows |-> <<>>]
         ELSE [returned |-> TRUE, error |-> NULL, rows |-> OrderByVotes(rows)]
  /\ UNCHANGED <<polls, votes, now, req, live, used, options, op, tally, form, auth>>

\* the caller has taken the returned rows
ResultsTaken ==
  /\ results.returned
  /\ results' = NoResults
  /\ UNCHANGED <<polls, votes, now, req, live, used, options, op, tally, form, auth>>

\* a poll of 2 or more options without any vote
InitResults ==
  /\ polls = [x \in PollIds |-> OtherPoll]
  /\ votes = [w \in VoteRows |-> 0]
  /\ now = 0
  /\ req = [r \in Requests |-> Off]
  /\ live = PollIds
  /\ used = PollIds
  /\ options = SeedOptions
  /\ op = IdleOp
  /\ \E n \in 2..MaxResultOptions : tally = NoVotes(n)
  /\ results = NoResults
  /\ form = NoForm
  /\ auth = NoAuth

NextResults ==
  \/ \E here \in BOOLEAN, k \in 0..MaxResultOptions : vote(here, k)
  \/ getPollResults
  \/ ResultsTaken

SpecResults == InitResults /\ [][NextResults]_vars

\* ========================================================= create-poll form
\* ----------------------------------------------------------------- bounds
MaxFields == 12

\* the values typed into an option field
FieldTexts == {"", "a"}

\* const addOption = () => setFormData(prev => ({ ...prev, options: [...prev.options, ''] }))
addOption ==
  /\ Len(form) < MaxFields
  /\ form' = Append(form, "")
  /\ UNCHANGED <<polls, votes, now, req, live, used, options, op, tally, results, auth>>

\* removeOption(index): if (formData.options.length <= 2) return; then filter.
\* Each click is handled after the render of the previous one, so the length
\* the guard reads is the length the update applies to.
removeOption(index) ==
  /\ index \in 1..Len(form)
  /\ ~(Len(form) <= 2)
  /\ form' = SubSeq(form, 1, index - 1) \o SubSeq(form, index + 1, Len(form))
  /\ UNCHANGED <<polls, votes, now, req, live, used, options, op, tally, results, auth>>

\* updateOption(index, value): options.map((opt, i) => i === index ? value : opt)
updateOption(index, value) ==
  /\ index \in 1..Len(form)
  /\ form[index] # value
  /\ form' = [form EXCEPT ![index] = value]
  /\ UNCHANGED <<polls, votes, now, req, live, used, options, op, tally, results, auth>>

\* the form as first rendered: useState({ ..., options: ['', ''] })
InitForm ==
  /\ polls = [x \in PollIds |-> OtherPoll]
  /\ votes = [w \in VoteRows |-> 0]
  /\ now = 0
  /\ req = [r \in Requests |-> Off]
  /\ live = PollIds
  /\ used = PollIds
  /\ options = SeedOptions
  /\ op = IdleOp
  /\ tally = NoVotes(0)
  /\ results = NoResults
  /\ form = NoForm
  /\ auth = NoAuth

NextForm ==
  \/ addOption
  \/ \E index \in 1..MaxFields : removeOption(index)
  \/ \E index \in 1..MaxFields, value \in FieldTexts : updateOption(index, value)

SpecForm == InitForm /\ [][NextForm]_vars

\* ============================================================= AuthProvider
\* Sessions are numbers: 0 is "no session" (null), every sign-in and every
\* token refresh gives a session with a new number.
\* ----------------------------------------------------------------- bounds
MaxEvents == 3

\* useEffect, on mount: isMounted = true, getSession() is called, the listener
\* is subscribed
Mount ==
  /\ ~auth.mounted /\ auth.call = "none"
  /\ auth' = [auth EXCEPT !.mounted = TRUE, !.call = "pending", !.subscribed = TRUE]
  /\ UNCHANGED <<polls, votes, now, req, live, used, options, op, tally, results, form>>

\* the auth client reads the session it holds: the promise of getSession()
\* resolves with it
getSession_resolve ==
  /\ auth.call = "pending"
  /\ auth' = [auth EXCEPT !.call = "read", !.read = auth.current]
  /\ UNCHANGED <<polls, votes, now, req, live, used, options, op, tally, results, form>>

\* .then(({ data }) => { if (!isMounted) return; setSession(data.session ?? null) ... })
getSession_then ==
  /\ auth.call = "read"
  /\ auth' = IF ~auth.mounted THEN [auth EXCEPT !.call = "dropped"]
             ELSE [auth EXCEPT !.session = auth.read, !.call = "applied"]
  /\ UNCHANGED <<polls, votes, now, req, live, used, options, op, tally, results, form>>

\* an auth event (sign-in, sign-out, token refresh; s = 0: signed out): the
\* client holds session s and calls the subscribed listener, which does
\* setSession(newSession)
onAuthStateChange(s) ==
  /\ auth.events < MaxEvents
  /\ s \in {0, auth.events + 2}
  /\ s # auth.current
  /\ auth' = IF auth.subscribed
               THEN [auth EXCEPT !.current = s, !.events = @ + 1,
                                 !.session = s, !.event = s]
               ELSE [auth EXCEPT !.current = s, !.events = @ + 1]
  /\ UNCHANGED <<polls, votes, now, req, live, used, options, op, tally, results, form>>

\* the cleanup of the effect: isMounted = false, unsubscribe()
Unmount ==
  /\ auth.mounted
  /\ auth' = [auth EXCEPT !.mounted = FALSE, !.subscribed = FALSE]
  /\ UNCHANGED <<polls, votes, now, req, live, used, options, op, tally, results, form>>

\* before the effect ran; the client holds no session or a stored one
InitAuth ==
  /\ polls = [x \in PollIds |-> OtherPoll]
  /\ votes = [w \in VoteRows |-> 0]
  /\ now = 0
  /\ req = [r \in Requests |-> Off]
  /\ live = PollIds
  /\ used = PollIds
  /\ options = SeedOptions
  /\ op = IdleOp
  /\ tally = NoVotes(0)
  /\ results = NoResults
  /\ form = NoForm
  /\ \E s \in {0, 1} : auth = [NoAuth EXCEPT !.current = s]

NextAuth ==
  \/ Mount
  \/ getSession_resolve
  \/ getSession_then
  \/ \E s \in 0..(MaxEvents + 1) : onAuthStateChange(s)
  \/ Unmount

SpecAuth == InitAuth /\ [][NextAuth]_vars

\* two requests at a time, on an open single-vote poll P1 with no time bounds
InitRace ==
  /\ \E p \in PollRows :
       /\ p.created_by = "u1"
       /\ p.is_active
       /\ ~p.anonymous
       /\ p.start_at = NoTime /\ p.ends_at = NoTime /\ p.expires_at = NoTime
       /\ p.vote_type = "single"
       /\ polls = [x \in PollIds |-> IF x = "P1" THEN p ELSE OtherPoll]
  /\ votes = [w \in VoteRows |-> 0]
  /\ now = MaxTime - 1
  /\ req = [r \in Requests |-> Idle]
  /\ live = PollIds
  /\ used = PollIds
  /\ options = SeedOptions
  /\ op = IdleOp
  /\ tally = NoVotes(0)
  /\ results = NoResults
  /\ form = NoForm
  /\ auth = NoAuth

SpecRace == InitRace /\ [][Next]_vars

\* ================================================================== claims
Single == polls["P1"].vote_type = "single"
Multi == polls["P1"].vote_type \in {"multiple", "approval"}
Done(r) == req[r].pc = "done"
\* the request got as far as the poll fetch and found poll P1
Fetched(r) == req[r].parsed /\ req[r].pollId = "P1" /\ req[r].pc \notin {"idle", "off", "fetch"}

\* C1: on a single-vote poll (vote_type = single, allow_multiple_votes = false)
\* a voter never has more than one vote row, and has exactly one as soon as one
\* of the voter's requests was answered ok, whatever the interleaving of the
\* voter's concurrent requests.
C1_ExactlyOneVote ==
  (Single /\ ~polls["P1"].allow_multiple_votes) =>
    \A v \in Users :
      /\ CountVotes(votes, "P1", v) <= 1
      /\ (\E r \in Requests : Done(r) /\ req[r].caller = v /\ req[r].resp = "OK")
           => CountVotes(votes, "P1", v) = 1

\* C2: on a single-vote poll, a request of a voter who had a recorded vote on
\* the poll when the request arrived never inserts a row and is never answered
\* ok; when it passes the checks that precede the prior-vote check (payload
\* validation, scheduling window) it is answered ALREADY_VOTED, whichever
\* option it names.
C2_SecondVoteRejected ==
  \A r \in Requests :
    (Single /\ req[r].prior) =>
      /\ req[r].nins = 0
      /\ req[r].pc \notin {"insert", "commit"}
      /\ req[r].resp # "OK"
      /\ (Done(r) /\ Fetched(r)
            /\ ~NotStarted(req[r].poll, req[r].now) /\ ~Ended(req[r].poll, req[r].now))
           => req[r].resp = "ALREADY_VOTED"

C2_Witness ==
  \E r \in Requests :
    /\ Single /\ req[r].prior /\ Done(r) /\ req[r].resp = "ALREADY_VOTED"
    /\ CountVotes(votes, "P1", req[r].caller) = 1

\* C3: a vote request whose insert the store rejects for the single-vote rule
\* (trigger enforce_single_vote, P0001) is answered ALREADY_VOTED.
C3_StoreRejectionIsAlreadyVoted ==
  \A r \in Requests :
    (Done(r) /\ req[r].dberr = "P0001") => req[r].resp = "ALREADY_VOTED"

\* C4: on a multiple or approval poll (allow_multiple_votes = true) no request
\* is answered ALREADY_VOTED: a voter with recorded votes may vote again.
C4_MultiVoteNoSingleRestriction ==
  \A r \in Requests :
    (Multi /\ polls["P1"].allow_multiple_votes /\ req[r].prior)
      => req[r].resp # "ALREADY_VOTED"

\* C5: on a multiple poll no two vote rows have the same (poll, voter, option).
C5_NoDuplicateVoteRows ==
  polls["P1"].vote_type = "multiple" => \A w \in VoteRows : votes[w] <= 1

C7_NoVoteOnClosedPoll ==
  [][\A r \in Requests :
       (req[r].pc = "insert" /\ req'[r].pc = "commit") =>
         /\ polls[req[r].pollId].is_active
         /\ (polls[req[r].pollId].expires_at = NoTime
               \/ now < polls[req[r].pollId].expires_at)]_vars

\* the poll was active and unexpired at the fetch, was closed before the
\* insert, and the store rejected the insert
C7_Witness ==
  \E r \in Requests :
    /\ Done(r) /\ req[r].dberr = "42501" /\ req[r].caller \in Users
    /\ req[r].poll.is_active
    /\ (req[r].poll.expires_at = NoTime \/ req[r].now < req[r].poll.expires_at)
    /\ req[r].nins = 0

\* C8: a request that reaches the scheduling checks is answered ENDED when the
\* poll's expires_at is in the past, NOT_STARTED when its start_at is in the
\* future, and neither of the two when the poll has no time bound at all
\* (stated for the requests of authenticated callers on a single-vote poll).
C8_TimeWindowCodes ==
  \A r \in Requests :
    (Done(r) /\ Fetched(r) /\ Single /\ ~req[r].poll.anonymous /\ req[r].caller \in Users) =>
      LET q == req[r] IN
      /\ (q.poll.start_at # NoTime /\ q.poll.start_at > q.now) => q.resp = "NOT_STARTED"
      /\ (q.poll.expires_at # NoTime /\ q.poll.expires_at < q.now) => q.resp = "ENDED"
      /\ (q.poll.start_at = NoTime /\ q.poll.expires_at = NoTime /\ q.poll.ends_at = NoTime)
           => q.resp \notin {"NOT_STARTED", "ENDED"}

\* C9: the answer carries the error of the earliest failing precondition in the
\* order poll exists, time window, is_active, voter identity, prior vote, vote
\* type: an error of a later check is given only when the earlier checks passed
\* on the poll as fetched (stated for single-vote polls that are not anonymous).
C9_CheckOrder ==
  \A r \in Requests :
    (Done(r) /\ req[r].parsed /\ Single /\ ~polls["P1"].anonymous) =>
      LET q == req[r]
          windowOk == /\ ~(q.poll.start_at # NoTime /\ q.poll.start_at > q.now)
                      /\ ~(q.poll.expires_at # NoTime /\ q.poll.expires_at < q.now)
          later == {"UNAUTHORIZED", "ALREADY_VOTED", "NOT_IMPLEMENTED"}
      IN  /\ q.pollId \notin PollIds => q.resp = "NOT_FOUND"
          /\ q.resp \in later => (windowOk /\ q.poll.is_active)
          /\ q.resp \in {"ALREADY_VOTED", "NOT_IMPLEMENTED"}
               => (q.poll.anonymous \/ q.caller \in Users)

\* C10: a request without an authenticated identity on a poll that is not
\* anonymous never inserts a row and is never answered ok, and is answered
\* UNAUTHORIZED when it passes the checks that precede the identity check
\* (payload validation, poll lookup, scheduling window); the voter of every row
\* a request creates is the authenticated caller of that request.
C10_UnauthorizedNoRow ==
  \A r \in Requests :
    /\ (req[r].pc \notin {"idle", "off"} /\ req[r].caller = NoUser /\ ~polls["P1"].anonymous) =>
         /\ req[r].nins = 0
         /\ req[r].pc \notin {"insert", "commit"}
         /\ req[r].resp # "OK"
         /\ (Done(r) /\ Fetched(r)
               /\ ~NotStarted(req[r].poll, req[r].now) /\ ~Ended(req[r].poll, req[r].now))
              => req[r].resp = "UNAUTHORIZED"
    /\ req[r].pc = "commit" =>
         (req[r].caller \in Users /\ req[r].pending.voter_id = req[r].caller)
    /\ req[r].nins > 0 => req[r].caller \in Users

\* an unauthenticated request was answered UNAUTHORIZED on a poll on which an
\* authenticated caller's vote is recorded
C10_Witness ==
  \E r \in Requests :
    /\ Done(r) /\ req[r].caller = NoUser /\ req[r].resp = "UNAUTHORIZED"
    /\ ~polls["P1"].anonymous
    /\ TotalVotes(votes) > 0

\* C11 (as claimed): every vote request on a ranked poll is answered
\* NOT_IMPLEMENTED and appends no row, whatever the caller and the payload.
C11_RankedAlwaysNotImplemented ==
  \A r \in Requests :
    (polls["P1"].vote_type = "ranked" /\ Done(r) /\ req[r].pollId = "P1") =>
      (req[r].resp = "NOT_IMPLEMENTED" /\ req[r].nins = 0)

\* C11 (amended): a vote request on a ranked poll never inserts a row and is
\* never answered ok, and the poll has no vote row; the request is answered
\* NOT_IMPLEMENTED when it passes the checks that precede the vote-type step
\* (payload validation, scheduling window, identity on a poll that is not
\* anonymous, no recorded vote of the caller).
C11_RankedRejected ==
  polls["P1"].vote_type = "ranked" =>
    /\ CountVotes(votes, "P1", "u1") + CountVotes(votes, "P1", "u2") = 0
    /\ \A r \in Requests : req[r].pollId = "P1" =>
         /\ req[r].nins = 0
         /\ req[r].pc \notin {"insert", "commit"}
         /\ req[r].resp # "OK"
         /\ (Done(r) /\ Fetched(r)
               /\ ~NotStarted(req[r].poll, req[r].now) /\ ~Ended(req[r].poll, req[r].now)
               /\ (req[r].poll.anonymous \/ req[r].caller \in Users)
               /\ ~req[r].prior)
              => req[r].resp = "NOT_IMPLEMENTED"

\* an authenticated caller's valid request on a ranked poll was answered
\* NOT_IMPLEMENTED and left no row
C11_Witness ==
  \E r \in Requests :
    /\ polls["P1"].vote_type = "ranked" /\ ~polls["P1"].anonymous
    /\ Done(r) /\ req[r].caller \in Users /\ req[r].parsed
    /\ req[r].resp = "NOT_IMPLEMENTED" /\ req[r].nins = 0
    /\ TotalVotes(votes) = 0

\* C12: a vote request is all-or-nothing: a request answered with an error has
\* left no row of its own in the ledger, and a request answered ok has
\* appended exactly one row per submitted option (stated for single polls and
\* for multiple/approval polls with allow_multiple_votes = true).
C12_AllOrNothing ==
  \A r \in Requests :
    (Done(r) /\ (Single \/ (Multi /\ polls["P1"].allow_multiple_votes))) =>
      /\ req[r].resp # "OK" => req[r].nins = 0
      /\ req[r].resp = "OK" => req[r].nins = Len(Targets(req[r]))

\* the lifecycle operation in flight is about a poll of another user
OpOnForeignPoll(o, pl, lv) ==
  o.poll \in lv /\ o.caller # pl[o.poll].created_by

\* C13 (as claimed): no step changes a vote row into another, and a vote row
\* is removed only by a delete issued by the voter who cast it.
C13_OnlyVoterRemovesVotes ==
  [][/\ ~(\E w, x \in VoteRows : votes'[w] < votes[w] /\ votes'[x] > votes[x])
     /\ \A w \in VoteRows : votes'[w] < votes[w] => op'.caller = w.voter_id]_vars

\* C13 (amended): no step changes a vote row into another; a DELETE issued on
\* the votes table removes only rows cast by its issuer, the poll owner
\* included; the rows of other voters are removed only by the cascade of the
\* deletion of their option or poll, issued by the owner of the poll.
C13_VotesRemovedByVoterOrCascade ==
  [][/\ ~(\E w, x \in VoteRows : votes'[w] < votes[w] /\ votes'[x] > votes[x])
     /\ \A w \in VoteRows : votes'[w] < votes[w] =>
          \/ /\ op.pc = "idle" /\ op'.kind = "delete"
             /\ op'.caller = w.voter_id /\ op'.poll = w.poll_id
          \/ /\ op.pc \in {"deleteOptions", "deletePoll"}
             /\ op.poll = w.poll_id /\ op.caller = polls[w.poll_id].created_by
             /\ \/ w.poll_id \notin live'
                \/ ~(\E o \in options' : o.id = w.option_id)]_vars

\* the owner's delete on votes has run and the vote of another voter is still
\* in the ledger
C13_Witness ==
  /\ op.kind = "delete" /\ op.pc = "deleteOptions"
  /\ op.poll = "P1" /\ op.caller = polls["P1"].created_by
  /\ CountVotes(votes, "P1", "u1") = 0
  /\ CountVotes(votes, "P1", "u2") = 1

\* C14: createPoll answers VALIDATION_ERROR and writes nothing for an options
\* array of length 0, 1 or 11; for every length from 2 to 10 with the other
\* fields valid it does not answer VALIDATION_ERROR, and for a signed-in
\* caller and distinct option texts it answers ok with that many options.
C14_OptionCountBounds ==
  (op.kind = "create") =>
    LET b == op.body
        n == Len(b.options)
        othersValid ==
          /\ b.title >= 3 /\ b.title <= 200
          /\ b.description <= 2000 /\ b.expiresAt # BadTime
          /\ \A k \in 1..n : b.options[k].len >= 1 /\ b.options[k].len <= 200
        distinct == \A j, k \in 1..n : j # k => b.options[j] # b.options[k]
    IN  /\ n \in {0, 1, 11} =>
             /\ op.pc = "done" /\ op.resp = "VALIDATION_ERROR"
             /\ op.poll = NULL /\ op.nopts = 0
        /\ (n \in 2..10 /\ othersValid) =>
             /\ op.resp # "VALIDATION_ERROR"
             /\ (op.pc = "done" /\ op.caller \in Users /\ distinct) =>
                  (op.resp = "OK" /\ op.nopts = n /\ OptionCount(op.poll) = n)

\* a poll was created with 10 options
C14_Witness ==
  /\ op.kind = "create" /\ op.pc = "done" /\ op.resp = "OK"
  /\ Len(op.body.options) = 10 /\ OptionCount(op.poll) = 10

\* C15 (as claimed): when createPoll has returned, either the poll row and all
\* the submitted options exist, or neither the poll row nor any option.
C15_CreateAtomic ==
  (op.kind = "create" /\ op.pc = "done") =>
    \/ /\ op.poll \in live
       /\ OptionCount(op.poll) = Len(op.body.options)
    \/ /\ op.poll = NULL /\ used = {"P1"} /\ op.nopts = 0

\* C15 (amended): createPoll writes the poll row and the option rows in two
\* statements. After ok the poll row and all the submitted options exist;
\* after VALIDATION_ERROR, UNAUTHORIZED or DB_INSERT_POLL neither exists; after
\* DB_INSERT_OPTIONS the poll row exists with none of its options (the options
\* statement is all-or-nothing).
C15_CreateOutcomes ==
  (op.kind = "create" /\ op.pc = "done") =>
    /\ op.resp \in {"OK", "VALIDATION_ERROR", "UNAUTHORIZED", "DB_INSERT_POLL",
                    "DB_INSERT_OPTIONS"}
    /\ op.resp = "OK" =>
         /\ op.poll \in live
         /\ OptionCount(op.poll) = Len(op.body.options)
         /\ \A k \in 1..Len(op.body.options) :
              \E o \in options : o.poll_id = op.poll /\ o.text = op.body.options[k]
    /\ op.resp \in {"VALIDATION_ERROR", "UNAUTHORIZED", "DB_INSERT_POLL"} =>
         /\ op.poll = NULL /\ used = {"P1"} /\ op.nopts = 0
    /\ op.resp = "DB_INSERT_OPTIONS" =>
         /\ op.poll \in live
         /\ OptionCount(op.poll) = 0 /\ op.nopts = 0

\* the options statement failed on a repeated text and left the poll row alone
C15_Witness ==
  /\ op.kind = "create" /\ op.pc = "done" /\ op.resp = "DB_INSERT_OPTIONS"
  /\ op.dberr = "23505"
  /\ op.poll \in live /\ OptionCount(op.poll) = 0

\* C16: every poll with is_active = true has at least 2 options, in every
\* reachable state.
C16_ActiveHasTwoOptions ==
  \A p \in live : polls[p].is_active => OptionCount(p) >= 2

\* C17: setting is_active of a poll by its owner: to true it fails with the
\* trigger's error and leaves is_active as it was when the poll has fewer
\* than 2 options, and succeeds and sets it when the poll has 2 or more; to
\* false it succeeds whatever the number of options.
C17_SetActive ==
  [][(op.pc = "idle" /\ op'.kind = "setActive" /\ op'.poll \in live
        /\ polls[op'.poll].created_by = op'.caller) =>
       LET p == op'.poll
           n == OptionCount(p)
       IN  /\ (op'.active /\ n < 2) =>
                /\ op'.resp = "ERROR" /\ op'.dberr = "P0001"
                /\ polls'[p].is_active = polls[p].is_active
           /\ (op'.active /\ n >= 2) =>
                (op'.resp = "OK" /\ polls'[p].is_active)
           /\ ~op'.active =>
                (op'.resp = "OK" /\ ~polls'[p].is_active)]_vars

\* the owner's activation of a deactivated poll without options was refused
C17_Witness ==
  /\ op.kind = "setActive" /\ op.pc = "done" /\ op.active
  /\ op.poll \in live /\ polls[op.poll].created_by = op.caller
  /\ OptionCount(op.poll) < 2
  /\ op.resp = "ERROR" /\ ~polls[op.poll].is_active

\* C18: a step of an update, activation or delete requested by a user who is
\* not the owner of the poll leaves polls, options and votes as they are, and
\* the operation does not report success.
C18_OnlyOwnerMutates ==
  [][(op'.kind \in {"delete", "setActive"} /\ OpOnForeignPoll(op', polls, live)) =>
       /\ polls' = polls /\ live' = live /\ options' = options /\ votes' = votes
       /\ op'.pc = "done" => op'.resp \notin {"OK", "REMOVED"}]_vars

\* sum of the percentages of the returned rows, in tenths of a percent
RECURSIVE SumPercentages(_)
SumPercentages(rows) ==
  IF rows = <<>> THEN 0 ELSE Head(rows).percentage + SumPercentages(Tail(rows))

\* C19: for a poll with total votes > 0 the percentages getPollResults
\* returns, each rounded to one decimal, sum to within 0.1 of 100.0.
C19_PercentagesSumTo100 ==
  (results.returned /\ total_votes(tally) > 0) =>
    /\ Len(results.rows) = tally.n
    /\ SumPercentages(results.rows) >= 999
    /\ SumPercentages(results.rows) <= 1001

ErrorCodes ==
  {"VALIDATION_ERROR", "UNAUTHORIZED", "NOT_FOUND", "NOT_STARTED", "ENDED",
   "ALREADY_VOTED", "NOT_IMPLEMENTED", "DB_INSERT_VOTE", "INTERNAL_ERROR"}

\* C21: every vote request ends with one typed result: ok, or an error whose
\* code is one of the documented codes, for every payload and every
\* configuration of the poll (vote_type absent included).
C21_TypedResult ==
  \A r \in Requests : Done(r) => req[r].resp \in ErrorCodes \cup {"OK"}

\* C22: in every reachable state no poll holds two options with the same text;
\* a createPoll request whose options repeat a label is refused by the store
\* and leaves no option row.
C22_UniqueOptionTexts ==
  /\ \A x, y \in options : (x.poll_id = y.poll_id /\ x.text = y.text) => x.id = y.id
  /\ (op.pc = "done" /\ op.kind = "create" /\ op.resp \notin {"VALIDATION_ERROR", "UNAUTHORIZED"}
        /\ \E j, k \in 1..Len(op.body.options) : j # k /\ op.body.options[j] = op.body.options[k])
       => /\ op.resp = "DB_INSERT_OPTIONS" /\ op.dberr = "23505"
          /\ OptionCount(op.poll) = 0

\* a signed-in caller's create request with a repeated label was refused
C22_Witness ==
  /\ op.pc = "done" /\ op.kind = "create" /\ op.resp = "DB_INSERT_OPTIONS"
  /\ op.dberr = "23505" /\ op.poll \in live
  /\ \E j, k \in 1..Len(op.body.options) : j # k /\ op.body.options[j] = op.body.options[k]

Rejections == {"VALIDATION_ERROR", "UNAUTHORIZED"}

\* C23: a createPoll or vote request that is rejected with VALIDATION_ERROR
\* or UNAUTHORIZED is rejected before any insert is issued: it wrote no poll,
\* no option and no vote row, and the step that rejects it writes nothing.
C23_RejectedBeforeAnyWrite ==
  /\ [](\A r \in Requests :
          (Done(r) /\ req[r].resp \in Rejections) =>
            req[r].i = 0 /\ req[r].nins = 0 /\ ~req[r].revalidated)
  /\ []((op.pc = "done" /\ op.kind = "create" /\ op.resp \in Rejections) =>
          op.poll = NULL /\ op.nopts = 0 /\ ~op.revalidated)
  /\ [][((\E r \in Requests :
              (~Done(r) /\ req'[r].pc = "done" /\ req'[r].resp \in Rejections))
          \/ (op.pc # "done" /\ op'.pc = "done" /\ op'.kind = "create"
                /\ op'.resp \in Rejections))
        => UNCHANGED <<polls, live, options, votes>>]_vars

\* after a create request had stored a poll, a vote request on a
\* multiple-choice poll was rejected for its missing optionIds, the poll
\* already fetched and the caller authenticated
C23_Witness ==
  /\ used = PollIds
  /\ Done("r1") /\ req["r1"].resp = "VALIDATION_ERROR" /\ req["r1"].parsed
  /\ req["r1"].poll.vote_type = "multiple" /\ req["r1"].userId \in Users

\* C24: getPollResults is computed from the votes rows at the time of the
\* read: every option of the poll has one row, its count is the number of
\* votes rows that reference the option (0 when there is none), and the counts
\* sum to the number of votes rows of the poll.
C24_CountsFromLedger ==
  results.returned =>
    /\ results.error = NULL
    /\ Len(results.rows) = tally.n
    /\ \A p \in 1..tally.n : \E k \in 1..Len(results.rows) :
         /\ results.rows[k].position = p
         /\ results.rows[k].votes = tally.own[p] + tally.foreign[p]
    /\ SumSeq([k \in 1..Len(results.rows) |-> results.rows[k].votes])
         = SumSeq(tally.own) + tally.astray

\* C25: when the options insert fails after the poll insert succeeded,
\* createPoll answers DB_INSERT_OPTIONS, the inserted poll row stays in the
\* store without any option (nothing is deleted), and no revalidation is issued.
C25_OrphanedPoll ==
  /\ [][(op.pc = "insertOptions"
          /\ OptionsInsertError(polls, live, options, op.caller, op.poll,
                                op.body.options) # NULL)
        => /\ op'.pc = "done" /\ op'.resp = "DB_INSERT_OPTIONS"
           /\ ~op'.revalidated
           /\ UNCHANGED <<polls, live, options, votes>>]_vars
  /\ []((op.pc = "done" /\ op.kind = "create" /\ op.resp = "DB_INSERT_OPTIONS") =>
          /\ op.poll \in live
          /\ polls[op.poll].created_by = op.caller
          /\ OptionCount(op.poll) = 0
          /\ ~op.revalidated)

\* the options insert of a request of the largest number of options failed
\* and left the poll without options
C25_Witness ==
  /\ op.pc = "done" /\ op.kind = "create" /\ op.resp = "DB_INSERT_OPTIONS"
  /\ op.poll \in live /\ OptionCount(op.poll) = 0 /\ Len(op.body.options) = MaxOptions

\* C26: revalidatePath for the poll's page is called if and only if the vote
\* request succeeded, and after its last insert completed: never by a request
\* that is rejected or fails, always by one that is answered ok.
C26_RevalidateIffOk ==
  \A r \in Requests :
    /\ req[r].revalidated <=> (Done(r) /\ req[r].resp = "OK")
    /\ req[r].revalidated =>
         /\ req[r].nins = Len(Targets(req[r]))
         /\ req[r].pending = NoRow

\* a request on a multiple-choice poll was answered ok after two inserts, and
\* revalidation was issued
C26_Witness ==
  /\ Done("r1") /\ req["r1"].resp = "OK" /\ req["r1"].revalidated
  /\ Multi /\ req["r1"].nins = 2

\* C29: a vote request is answered ok only if it inserted at least one vote
\* row and every option it was to insert; a multiple/approval request with an
\* empty optionIds array and a request on a poll whose vote_type is none of
\* single, multiple, approval, ranked insert nothing and are not answered ok.
C29_OkOnlyAfterInserts ==
  \A r \in Requests : Done(r) =>
    /\ req[r].resp = "OK" =>
         /\ req[r].nins >= 1
         /\ req[r].nins = Len(Targets(req[r]))
         /\ req[r].poll.vote_type \in {"single", "multiple", "approval"}
    /\ (Fetched(r) /\ req[r].poll.vote_type \in {"multiple", "approval"}
          /\ req[r].body.hasOptionIds /\ req[r].body.optionIds = <<>>) =>
         req[r].resp # "OK" /\ req[r].nins = 0
    /\ (Fetched(r) /\ req[r].poll.vote_type \notin {"single", "multiple", "approval", "ranked"}) =>
         req[r].resp # "OK" /\ req[r].nins = 0

\* a request with an empty optionIds array on a multiple-choice poll reached
\* the vote-type step and was answered with an error
C29_Witness ==
  /\ Done("r1") /\ Fetched("r1") /\ Multi
  /\ req["r1"].body.hasOptionIds /\ req["r1"].body.optionIds = <<>>
  /\ req["r1"].resp = "INTERNAL_ERROR" /\ req["r1"].nins = 0

\* C27: in the create-poll form, after any sequence of addOption, removeOption
\* and updateOption from the initial two empty options, the number of option
\* fields is between 2 and 10.
C27_FieldCountBounds == Len(form) >= MinOptions /\ Len(form) <= MaxOptions

\* C28: in AuthProvider, once an auth event has been applied the state shows
\* the session of the most recent auth event: the result of the initial
\* getSession() call never replaces it by an older session; and after unmount
\* no getSession() result is applied.
C28_StateStaysCurrent ==
  /\ []((auth.mounted /\ auth.event # 0 - 1) => auth.session = auth.event)
  /\ [][(~auth.mounted /\ auth.call = "read") => auth'.session = auth.session]_vars

\* C30: dashboard deletePoll removes the poll from the myPolls list only if
\* the polls row was deleted; when one of its three deletes is refused, the
\* operation leaves the store as it was and the list still shows the poll.
C30_DeleteAllOrNothing ==
  /\ []((op.pc = "done" /\ op.kind = "delete" /\ op.resp = "REMOVED") =>
          op.poll \notin live)
  /\ [][(op'.kind = "delete" /\ op'.poll \in live
           /\ ~polls_owner_delete(op'.caller, polls[op'.poll]))
        => (votes' = votes /\ options' = options)]_vars

====
